---- MODULE Spec2Model ----
(***************************************************************************)
(* Model of the Kubernetes port-forward manager (port-forward.ts):         *)
(* the registry registeredPortForwards, the lock                           *)
(* portForwardRegistrationLock, getPortForward with the event handlers it  *)
(* installs on the kubectl process, killPortForward and the cleanup        *)
(* function "kill-port-forward-procs"; and of getForwardablePorts, the      *)
(* pure function that lists the ports of a set of resources.               *)
(*                                                                         *)
(* A PortForward descriptor is created together with its process, so both  *)
(* are one entry of the sequence procs, named by its index.  0 stands for  *)
(* undefined (no registry entry, no process, no result).                   *)
(***************************************************************************)
EXTENDS Integers, Sequences, FiniteSets, TLC

\* ---------------------------------------------------------------- bounds
\* Number of getPortForward calls made in a run.
NumCalls == 2
\* Number of local ports get-port can hand out.
NumPorts == 2
\* Number of data chunks the kubectl processes of a run write, all together.
MaxLines == 2
\* Number of resources in the list given to getForwardablePorts.
MaxResources == 2

Ports == 1..NumPorts

\* The (targetResource, port) pairs callers ask for.
FirstTarget == <<"Service/web", 8080>>
Targets == {FirstTarget, <<"Deployment/api", 9000>>}

\* The code the "close" event reports: null (here -1) for a process ended by
\* proc.kill(), and kubectl's failure code for one that ends by itself.
NullCode == -1
FailureCode == 1
ExitCodes(pr) == IF pr.killed THEN {NullCode} ELSE {FailureCode}

\* Texts a process can write; each can arrive on stdout or on stderr.
ReadyText == "Forwarding from 127.0.0.1"
FatalText == "error forwarding port"
Texts == {ReadyText, FatalText}

VARIABLES
    registeredPortForwards, \* key -> descriptor (0: no entry)
    lockHolder,             \* call inside portForwardRegistrationLock (0: free)
    lockQueue,              \* calls waiting for the lock, in arrival order
    callers,                \* the getPortForward calls: position, locals, outcome
    procs,                  \* spawned kubectl processes and their closures
    uncaught,               \* an "error" handler threw out of its listener
    scenario,               \* what the environment does: calls made, targets asked for
    resolver                \* getForwardablePorts: its argument and what it returned

vars == <<registeredPortForwards, lockHolder, lockQueue, callers, procs, uncaught, scenario, resolver>>

\* ------------------------------------------------------------- helpers
\* getPortForwardKey: `${targetResource}:${port}`; the port is a number, so
\* the last ":" separates the two parts and the pair is recovered from it.
getPortForwardKey(targetResource, port) == <<targetResource, ":", port>>

Keys == {getPortForwardKey(t[1], t[2]) : t \in Targets}

NoError == [code |-> -2, output |-> <<>>, portForward |-> 0]

NewCaller(t, window) ==
    [pc |-> "queued", targetResource |-> t[1], port |-> t[2],
     key |-> getPortForwardKey(t[1], t[2]), registered |-> 0, window |-> window,
     localPort |-> 0, proc |-> 0, result |-> 0, error |-> NoError]

\* Mutant of IsReadyLine: any chunk on stdout counts as the readiness line.
IsReadyLineAny(line) == TRUE

\* line.toString().includes("Forwarding from ")
IsReadyLine(line) == line = ReadyText

\* includes("error forwarding port") || includes("unable to forward") || ...
IsFatalLine(line) == line = FatalText

\* Mutants of Reusable: the test of proc.killed inverted, and left out.
ReusableInverted(reg, ps, key) == reg[key] # 0 /\ ps[reg[key]].killed

ReusableUnchecked(reg, ps, key) == reg[key] # 0

\* registered && !registered.proc.killed
Reusable(reg, ps, key) == reg[key] # 0 /\ ~ps[reg[key]].killed

\* Mutant of KillProc: proc.kill() is never called.
KillProcNever(ps, p) == ps

\* !proc.killed && proc.kill()
KillProc(ps, p) == IF ps[p].killed THEN ps ELSE [ps EXCEPT ![p].killed = TRUE]

\* get-port: a port no live process of ours holds.  Port numbers are only ever
\* compared, so a port never handed out before is taken to be the lowest such.
FreePorts(ps) ==
    LET held == {ps[p].localPort : p \in {q \in DOMAIN ps : ~ps[q].closed /\ ~ps[q].killed}}
        used == {ps[p].localPort : p \in DOMAIN ps}
        new  == Ports \ used
    IN  (used \ held) \cup {lp \in new : \A other \in new : lp <= other}

\* --------------------------------------------- the lock and its callback
\* Position in q of the first waiting caller that has to create a forward.
FirstCreator(q, cs, reg, ps) ==
    LET create == {i \in 1..Len(q) : ~Reusable(reg, ps, cs[q[i]].key)}
    IN  IF create = {} THEN Len(q) + 1
        ELSE CHOOSE i \in create : \A j \in create : i <= j

\* The lock is free and the callers in q get it in turn.  Each runs the start of
\* the callback: one that finds a usable entry returns it, which frees the lock
\* for the next (all within one turn of the event loop); the first one that
\* does not keeps the lock and goes on to `await getPort()`.
EnterLock(q, cs, reg, ps) ==
    LET n == FirstCreator(q, cs, reg, ps) IN
    [c \in DOMAIN cs |->
        IF \E i \in 1..Len(q) : q[i] = c /\ i < n
        THEN [cs[c] EXCEPT !.pc = "resolved",
                           !.registered = reg[cs[c].key],
                           !.result = reg[cs[c].key]]
        ELSE IF n <= Len(q) /\ q[n] = c
        THEN [cs[c] EXCEPT !.pc = "getPort", !.registered = reg[cs[c].key]]
        ELSE cs[c]]

HolderAfter(q, cs, reg, ps) ==
    LET n == FirstCreator(q, cs, reg, ps) IN IF n <= Len(q) THEN q[n] ELSE 0

QueueAfter(q, cs, reg, ps) ==
    LET n == FirstCreator(q, cs, reg, ps) IN SubSeq(q, n + 1, Len(q))

\* The callback's promise settled: the lock passes on.
ReleaseLock(cs, reg, ps) ==
    /\ callers' = EnterLock(lockQueue, cs, reg, ps)
    /\ lockHolder' = HolderAfter(lockQueue, cs, reg, ps)
    /\ lockQueue' = QueueAfter(lockQueue, cs, reg, ps)

\* getForwardablePorts has not been called; resources are its argument to be.
NotCalled(resources) == [resources |-> resources, called |-> FALSE, ports |-> <<>>]

\* ---------------------------------------------------------------- Init
Init ==
    /\ registeredPortForwards = [k \in Keys |-> 0]
    /\ lockHolder = 0
    /\ lockQueue = <<>>
    /\ callers = <<>>
    /\ procs = <<>>
    /\ uncaught = FALSE
    /\ scenario = [calls |-> NumCalls, targets |-> Targets]
    /\ resolver = NotCalled(<<>>)

\* ------------------------------------------------------------- actions
\* Mutant of LockFree: the lock excludes nobody.
LockAlwaysFree == TRUE

\* portForwardRegistrationLock.acquire runs the callback at once when no other
\* callback holds the lock.
LockFree == lockHolder = 0

\* getPortForward({targetResource, port}) is called: the call takes the lock
\* when it is free and waits for it otherwise.  The targets are interchangeable,
\* so the first call of a run asks for the first of them.
GetPortForward(t) ==
    /\ Len(callers) < scenario.calls
    /\ t \in scenario.targets
    /\ callers = <<>> => t = FirstTarget
    /\ LET c == Len(callers) + 1 IN
       IF LockFree
       THEN /\ callers' = EnterLock(<<c>>, Append(callers, NewCaller(t, 0)),
                                    registeredPortForwards, procs)
            /\ lockHolder' = HolderAfter(<<c>>, Append(callers, NewCaller(t, 0)),
                                         registeredPortForwards, procs)
            /\ UNCHANGED lockQueue
       ELSE /\ callers' = Append(callers, NewCaller(t,
                   IF callers[lockHolder].key = getPortForwardKey(t[1], t[2])
                   THEN lockHolder ELSE 0))
            /\ lockQueue' = Append(lockQueue, c)
            /\ UNCHANGED lockHolder
    /\ UNCHANGED <<registeredPortForwards, procs, uncaught, scenario, resolver>>

\* Mutant of PortForward: the two ports in each other's place.
PortForwardSwapped(c, lp) ==
    [targetResource |-> callers[c].targetResource, port |-> lp,
     localPort |-> callers[c].port]

\* const portForward = { targetResource, port, proc, localPort }
PortForward(c, lp) ==
    [targetResource |-> callers[c].targetResource, port |-> callers[c].port,
     localPort |-> lp]

\* localPort = await getPort(), the path of kubectl, execa(...), and the
\* promise with its handlers.  Nothing between the two awaits reads or writes
\* shared state, so they resume in one step.
Spawn(c, lp) ==
    /\ c \in DOMAIN callers
    /\ callers[c].pc = "getPort"
    /\ lp \in FreePorts(procs)
    /\ procs' = Append(procs,
          PortForward(c, lp) @@
          [key |-> callers[c].key, owner |-> c, output |-> <<>>, resolved |-> FALSE,
           sleeping |-> FALSE, killed |-> FALSE, closed |-> FALSE, written |-> <<>>])
    /\ callers' = [callers EXCEPT ![c].pc = "awaiting", ![c].localPort = lp,
                                  ![c].proc = Len(procs) + 1]
    /\ UNCHANGED <<registeredPortForwards, lockHolder, lockQueue, uncaught, scenario, resolver>>

Running(p) == p \in DOMAIN procs /\ ~procs[p].closed

RECURSIVE Written(_, _)
Written(ps, n) == IF n = 0 THEN 0 ELSE Len(ps[n].written) + Written(ps, n - 1)

CanWrite(p) == Running(p) /\ Written(procs, Len(procs)) < MaxLines

\* What the stdout handler makes of a chunk: the closure's output and resolved.
StdoutOutput(pr, line) == IF pr.resolved THEN pr.output ELSE Append(pr.output, line)

\* proc.stdout.on("data")
StdoutData(p, line) ==
    /\ CanWrite(p)
    /\ LET pr == procs[p]
           ready == ~pr.resolved /\ IsReadyLine(line)
       IN  /\ procs' = [procs EXCEPT ![p].written = Append(pr.written, line),
                                     ![p].output = StdoutOutput(pr, line),
                                     ![p].resolved = pr.resolved \/ ready,
                                     ![p].sleeping = pr.sleeping \/ ready]
           /\ registeredPortForwards' =
                 IF ready THEN [registeredPortForwards EXCEPT ![pr.key] = p]
                 ELSE registeredPortForwards
    /\ UNCHANGED <<lockHolder, lockQueue, callers, uncaught, scenario, resolver>>

\* Mutant of StderrOutput: stderr is logged but not kept.
StderrOutputDropped(pr, line) == pr.output

\* output += line in the stderr handler
StderrOutput(pr, line) == Append(pr.output, line)

\* proc.stderr.on("data")
StderrData(p, line) ==
    /\ CanWrite(p)
    /\ LET pr == procs[p]
           ps == [procs EXCEPT ![p].written = Append(pr.written, line),
                               ![p].output = StderrOutput(pr, line)]
       IN  procs' = IF IsFatalLine(line) THEN KillProc(ps, p) ELSE ps
    /\ UNCHANGED <<registeredPortForwards, lockHolder, lockQueue, callers, uncaught, scenario, resolver>>

\* sleep(250).then(() => resolve(portForward))
Settle(p) ==
    /\ p \in DOMAIN procs
    /\ procs[p].sleeping
    /\ procs' = [procs EXCEPT ![p].sleeping = FALSE]
    /\ ReleaseLock([callers EXCEPT ![procs[p].owner].pc = "resolved",
                                   ![procs[p].owner].result = p],
                   registeredPortForwards, procs')
    /\ UNCHANGED <<registeredPortForwards, uncaught, scenario, resolver>>

\* Mutant of CloseRegistry: the close handler leaves the registry alone.
CloseRegistryKept(reg, key, p) == reg

\* Mutant of CloseRegistry: only the closing process's own entry is deleted.
CloseRegistryOwnOnly(reg, key, p) == IF reg[key] = p THEN [reg EXCEPT ![key] = 0] ELSE reg

\* if (registeredPortForwards[key]) { delete registeredPortForwards[key] }
CloseRegistry(reg, key, p) == [reg EXCEPT ![key] = 0]

\* new RuntimeError(`Port forward exited with code ${code} ...\n\n${output}`, { code, portForward })
CreationFailed(pr, p, code) == [code |-> code, output |-> pr.output, portForward |-> p]

\* proc.on("close")
Close(p, code) ==
    /\ Running(p)
    /\ code \in ExitCodes(procs[p])
    /\ procs' = [procs EXCEPT ![p].closed = TRUE]
    /\ registeredPortForwards' = CloseRegistry(registeredPortForwards, procs[p].key, p)
    /\ IF ~procs[p].resolved
       THEN ReleaseLock([callers EXCEPT ![procs[p].owner].pc = "rejected",
                                        ![procs[p].owner].error =
                                            CreationFailed(procs[p], p, code)],
                        registeredPortForwards', procs')
       ELSE UNCHANGED <<lockHolder, lockQueue, callers>>
    /\ UNCHANGED <<uncaught, scenario, resolver>>

\* proc.on("error"): the process is killed and the error is thrown out of
\* the listener; the promise of getPortForward is not touched.
ProcError(p) ==
    /\ Running(p)
    /\ procs' = KillProc(procs, p)
    /\ uncaught' = TRUE
    /\ UNCHANGED <<registeredPortForwards, lockHolder, lockQueue, callers, scenario, resolver>>

\* Mutant of KillTargets: the key is ignored and every entry is taken.
KillTargetsAnyKey(reg, ps, key) == {reg[k] : k \in {j \in DOMAIN reg : reg[j] # 0}}

\* The processes killPortForward terminates for one key.
KillTargets(reg, ps, key) == IF reg[key] # 0 THEN {reg[key]} ELSE {}

KillAll(ps, targets) ==
    [p \in DOMAIN ps |-> IF p \in targets THEN KillProc(ps, p)[p] ELSE ps[p]]

\* killPortForward(targetResource, targetPort)
KillPortForward(t) ==
    /\ procs' = KillAll(procs, KillTargets(registeredPortForwards, procs,
                                           getPortForwardKey(t[1], t[2])))
    /\ UNCHANGED <<registeredPortForwards, lockHolder, lockQueue, callers, uncaught, scenario, resolver>>

\* Mutant of CleanupTargets: every spawned process is taken, registered or not.
CleanupTargetsAllProcs(reg, ps) == DOMAIN ps

\* Mutant of CleanupTargets: the loop ends after its first entry.
CleanupTargetsFirst(reg, ps) ==
    LET ks == {j \in Keys : reg[j] # 0}
    IN  IF ks = {} THEN {} ELSE {reg[CHOOSE k \in ks : TRUE]}

\* The entries the cleanup function walks over.
CleanupTargets(reg, ps) ==
    UNION {KillTargets(reg, ps, getPortForwardKey(ps[reg[k]].targetResource, ps[reg[k]].port))
             : k \in {j \in Keys : reg[j] # 0}}

\* registerCleanupFunction("kill-port-forward-procs", ...)
Cleanup ==
    /\ procs' = KillAll(procs, CleanupTargets(registeredPortForwards, procs))
    /\ UNCHANGED <<registeredPortForwards, lockHolder, lockQueue, callers, uncaught, scenario, resolver>>

Next ==
    \/ \E t \in Targets : GetPortForward(t)
    \/ \E c \in 1..NumCalls + 1, lp \in Ports : Spawn(c, lp)
    \/ \E p \in 1..NumCalls + 1, line \in Texts : StdoutData(p, line)
    \/ \E p \in 1..NumCalls + 1, line \in Texts : StderrData(p, line)
    \/ \E p \in 1..NumCalls + 1 : Settle(p)
    \/ \E p \in 1..NumCalls + 1, code \in {NullCode, FailureCode} : Close(p, code)
    \/ \E p \in 1..NumCalls + 1 : ProcError(p)
    \/ \E t \in Targets : KillPortForward(t)
    \/ Cleanup

Spec == Init /\ [][Next]_vars

\* Three calls for one key, with a kubectl that starts: the runs in which a
\* process outlives its registry entry.
InitRace ==
    /\ registeredPortForwards = [k \in Keys |-> 0]
    /\ lockHolder = 0
    /\ lockQueue = <<>>
    /\ callers = <<>>
    /\ procs = <<>>
    /\ uncaught = FALSE
    /\ scenario = [calls |-> NumCalls + 1, targets |-> {FirstTarget}]
    /\ resolver = NotCalled(<<>>)

NextRace ==
    \/ \E t \in Targets : GetPortForward(t)
    \/ \E c \in 1..NumCalls + 1, lp \in Ports : Spawn(c, lp)
    \/ \E p \in 1..NumCalls + 1, line \in Texts : StdoutData(p, line)
    \/ \E p \in 1..NumCalls + 1, line \in Texts : StderrData(p, line)
    \/ \E p \in 1..NumCalls + 1 : Settle(p)
    \/ \E p \in 1..NumCalls + 1, code \in {NullCode, FailureCode} : Close(p, code)
    \/ \E t \in Targets : KillPortForward(t)
    \/ Cleanup

SpecRace == InitRace /\ [][NextRace]_vars

\* ------------------------------------------------- getForwardablePorts
\* The resources the function is tried on.  A resource carries what the
\* function reads: apiVersion, kind, metadata.name, spec.selector and
\* spec.ports (of a Service), spec.template.metadata.labels and
\* spec.template.spec.containers (of a workload).  Label maps are sets of
\* key/value pairs; a missing map is the empty one and a missing list the
\* empty list, as with the code's `|| {}` and `|| []`; a missing targetPort is 0.
BuiltInApi == "v1"
CustomApi == "example.com/v1"
ApiVersions == {BuiltInApi, CustomApi}

Selectors == {{}, {<<"app", "web">>}}

PodTemplates ==
    {[name |-> "web", labels |-> {<<"app", "web">>, <<"tier", "backend">>}],
     [name |-> "worker", labels |-> {<<"app", "worker">>}]}

ServicePortLists ==
    {<<>>,
     <<[name |-> "http", port |-> 8080, targetPort |-> 8080]>>,
     <<[name |-> "http", port |-> 80, targetPort |-> 8080],
       [name |-> "admin", port |-> 9000, targetPort |-> 0]>>}

ContainerLists ==
    {<<>>,
     <<[ports |-> <<[name |-> "http", containerPort |-> 8080]>>]>>,
     <<[ports |-> <<>>],
       [ports |-> <<[name |-> "http", containerPort |-> 8080],
                    [name |-> "admin", containerPort |-> 9000]>>]>>}

WorkloadKinds == {"Deployment", "DaemonSet"}

SampleResources ==
    {[apiVersion |-> a, kind |-> "Service", name |-> "web", selector |-> sel,
      ports |-> ps, labels |-> {}, containers |-> <<>>]
        : a \in ApiVersions, sel \in Selectors, ps \in ServicePortLists}
    \cup
    {[apiVersion |-> a, kind |-> k, name |-> t.name, selector |-> {},
      ports |-> <<>>, labels |-> t.labels, containers |-> cs]
        : a \in ApiVersions, k \in WorkloadKinds, t \in PodTemplates, cs \in ContainerLists}
    \cup
    {[apiVersion |-> BuiltInApi, kind |-> "ConfigMap", name |-> "settings",
      selector |-> {}, ports |-> <<>>, labels |-> {}, containers |-> <<>>]}

ResourceLists == UNION {[1..n -> SampleResources] : n \in 0..MaxResources}

\* isBuiltIn(r), imported from ./util: the resource is of a built-in API.
isBuiltIn(r) == r.apiVersion = BuiltInApi

\* matchSelector(selector, labels), imported from ./util: the selector is not
\* empty and each of its key/value pairs is among the labels.
matchSelector(selector, labels) == selector # {} /\ selector \subseteq labels

\* resources.filter((r) => isBuiltIn(r) && r.kind === "Service")
IsService(r) == isBuiltIn(r) /\ r.kind = "Service"

\* Mutant of IsWorkload: a workload of either kind has to be built-in.
IsWorkloadBuiltInOnly(r) == isBuiltIn(r) /\ r.kind \in WorkloadKinds

\* resources.filter((r) => (isBuiltIn(r) && r.kind === "Deployment") || r.kind === "DaemonSet")
IsWorkload(r) == (isBuiltIn(r) /\ r.kind = "Deployment") \/ r.kind = "DaemonSet"

\* The entries pushed for one Service: one for each of its ports.
ServicePorts(service) ==
    [i \in 1..Len(service.ports) |->
        [name |-> service.ports[i].name, protocol |-> "TCP",
         targetName |-> "Service/" \o service.name,
         targetPort |-> service.ports[i].port]]

RECURSIVE AllServicePorts(_)
AllServicePorts(services) ==
    IF services = <<>> THEN <<>>
    ELSE ServicePorts(Head(services)) \o AllServicePorts(Tail(services))

\* containers.flatMap((c) => c.ports || [])
RECURSIVE ContainerPorts(_)
ContainerPorts(containers) ==
    IF containers = <<>> THEN <<>>
    ELSE Head(containers).ports \o ContainerPorts(Tail(containers))

\* serviceTargetPort && serviceTargetPort === portSpec.containerPort
TargetPortMatches(servicePort, portSpec) ==
    servicePort.targetPort # 0 /\ servicePort.targetPort = portSpec.containerPort

\* Mutant of matchesService: the selector is not looked at.
matchesServiceAnySelector(services, workload, portSpec) ==
    \E i \in 1..Len(services) :
        \E j \in 1..Len(services[i].ports) :
            TargetPortMatches(services[i].ports[j], portSpec)

\* matchesService(podTemplate, portSpec), over the Services filtered before.
matchesService(services, workload, portSpec) ==
    \E i \in 1..Len(services) :
        /\ matchSelector(services[i].selector, workload.labels)
        /\ \E j \in 1..Len(services[i].ports) :
              TargetPortMatches(services[i].ports[j], portSpec)

\* The entries pushed for one workload: one for each container port that no
\* Service points to.
WorkloadPorts(services, workload) ==
    LET portSpecs == ContainerPorts(workload.containers)
        Unmatched(portSpec) == ~matchesService(services, workload, portSpec)
        kept == SelectSeq(portSpecs, Unmatched)
    IN  [i \in 1..Len(kept) |->
            [name |-> kept[i].name, protocol |-> "TCP",
             targetName |-> workload.kind \o "/" \o workload.name,
             targetPort |-> kept[i].containerPort]]

RECURSIVE AllWorkloadPorts(_, _)
AllWorkloadPorts(services, workloads) ==
    IF workloads = <<>> THEN <<>>
    ELSE WorkloadPorts(services, Head(workloads))
             \o AllWorkloadPorts(services, Tail(workloads))

\* getForwardablePorts(resources)
getForwardablePorts(resources) ==
    LET services == SelectSeq(resources, IsService)
        workloads == SelectSeq(resources, IsWorkload)
    IN  AllServicePorts(services) \o AllWorkloadPorts(services, workloads)

\* A call of getForwardablePorts on the resources at hand.
GetForwardablePorts ==
    /\ ~resolver.called
    /\ resolver' = [resolver EXCEPT !.called = TRUE,
                                    !.ports = getForwardablePorts(resolver.resources)]
    /\ UNCHANGED <<registeredPortForwards, lockHolder, lockQueue, callers, procs,
                   uncaught, scenario>>

\* getForwardablePorts alone, on every list of at most MaxResources of the
\* sample resources.
InitPorts ==
    /\ registeredPortForwards = [k \in Keys |-> 0]
    /\ lockHolder = 0
    /\ lockQueue = <<>>
    /\ callers = <<>>
    /\ procs = <<>>
    /\ uncaught = FALSE
    /\ scenario = [calls |-> NumCalls, targets |-> Targets]
    /\ resolver \in {NotCalled(resources) : resources \in ResourceLists}

NextPorts == GetForwardablePorts

SpecPorts == InitPorts /\ [][NextPorts]_vars

\* A process has given one of the signals a creation waits for: its readiness
\* line, its close, or an error event.  (Under NextLive nothing but the error
\* handler kills a process that is not yet registered.)
Signalled(pr) == pr.resolved \/ pr.closed \/ (pr.killed /\ uncaught)

ProcSignal(p) ==
    \/ StdoutData(p, ReadyText)
    \/ \E code \in {NullCode, FailureCode} : Close(p, code)
    \/ ProcError(p)

\* The runs of Spec without fatal lines on stderr.
NextLive ==
    \/ \E t \in Targets : GetPortForward(t)
    \/ \E c \in 1..NumCalls + 1, lp \in Ports : Spawn(c, lp)
    \/ \E p \in 1..NumCalls + 1, line \in Texts : StdoutData(p, line)
    \/ \E p \in 1..NumCalls + 1 : StderrData(p, ReadyText)
    \/ \E p \in 1..NumCalls + 1 : Settle(p)
    \/ \E p \in 1..NumCalls + 1, code \in {NullCode, FailureCode} : Close(p, code)
    \/ \E p \in 1..NumCalls + 1 : ProcError(p)
    \/ \E t \in Targets : KillPortForward(t)
    \/ Cleanup

\* The event loop runs what is ready (getPort resolves, the settle timer
\* fires), and every spawned process sooner or later gives a signal.
LiveSpec ==
    /\ Init
    /\ [][NextLive]_vars
    /\ WF_vars(\E c \in 1..NumCalls + 1, lp \in Ports : Spawn(c, lp))
    /\ WF_vars(\E p \in 1..NumCalls + 1 : Settle(p))
    /\ \A p \in 1..NumCalls + 1 :
          WF_vars(p \in DOMAIN procs /\ ~Signalled(procs[p]) /\ ProcSignal(p))

\* ================================================================ claims
\* A tunnel's status, read off its process: Terminated once the process is
\* closed or killed, Active once the readiness line was seen, Pending before.
Terminated(pr) == pr.closed \/ pr.killed
Pending(pr) == ~Terminated(pr) /\ ~pr.resolved
Active(pr) == ~Terminated(pr) /\ pr.resolved

Settled(cl) == cl.pc \in {"resolved", "rejected"}

\* Call c enters the critical section in this step (it runs the lookup).
Enters(c) ==
    /\ c \in DOMAIN callers'
    /\ c \in DOMAIN callers => callers[c].pc = "queued"
    /\ callers'[c].pc # "queued"

\* The registry entry call c finds when it enters.
Found(c) == registeredPortForwards'[callers'[c].key]

C2_AtMostOneLivePerKey ==
    \A k \in Keys :
        Cardinality({p \in DOMAIN procs : procs[p].key = k /\ ~Terminated(procs[p])}) <= 1

\* --- C3
\* C3: a call that enters the critical section when the registry entry of its
\* key has a killed process is not given that entry but goes on to spawn; and a
\* call that found an entry and spawned all the same resolves with the
\* descriptor of its own process, whose localPort is the one get-port gave it.
ResolvedWithOwn ==
    \A c \in DOMAIN callers :
        (callers[c].pc = "resolved" /\ callers[c].registered # 0 /\ callers[c].proc # 0)
        => /\ callers[c].result = callers[c].proc
           /\ callers[c].result # callers[c].registered
           /\ procs[callers[c].result].owner = c
           /\ procs[callers[c].result].localPort = callers[c].localPort

C3_NoStaleAfterKill ==
    [][/\ \A c \in DOMAIN callers' :
            (Enters(c) /\ Found(c) # 0 /\ procs'[Found(c)].killed)
            => callers'[c].pc = "getPort" /\ callers'[c].registered = Found(c)
       /\ ResolvedWithOwn']_vars

C3_Witness ==
    \E c \in DOMAIN callers :
        /\ callers[c].pc = "resolved"
        /\ callers[c].registered # 0
        /\ procs[callers[c].registered].killed
        /\ callers[c].result = callers[c].proc
        /\ callers[c].proc # callers[c].registered

\* --- C4
\* C4: when a process closes before its readiness line was seen, the call that
\* spawned it is rejected with an error holding the code of the close event,
\* everything the process wrote up to then, and the descriptor.
C4_CloseWhilePendingRejects ==
    [][\A p \in DOMAIN procs :
        (~procs[p].closed /\ procs'[p].closed /\ ~procs[p].resolved)
        => LET c == procs[p].owner IN
           /\ callers[c].pc = "awaiting"
           /\ callers'[c].pc = "rejected"
           /\ callers'[c].error.code \in ExitCodes(procs[p])
           /\ callers'[c].error.output = procs[p].written
           /\ callers'[c].error.portForward = p]_vars

C4_Witness ==
    \E c \in DOMAIN callers :
        /\ callers[c].pc = "rejected"
        /\ Len(callers[c].error.output) = 2
        /\ callers[c].error.code = FailureCode

\* --- C5
\* C5: the readiness line of a Pending tunnel makes it Active and the registry
\* entry of its key; from then on the call that spawned it can only resolve,
\* and when the settle delay is over it resolves with the descriptor, whose
\* target and port are the ones asked for and whose localPort is the one
\* get-port gave that call.
C5_ReadyResolves ==
    [][\A p \in DOMAIN procs :
        LET c == procs[p].owner IN
        /\ (Pending(procs[p]) /\ procs'[p].resolved)
            => /\ Active(procs'[p])
               /\ procs'[p].sleeping
               /\ procs[p].key = getPortForwardKey(procs[p].targetResource, procs[p].port)
               /\ registeredPortForwards'[procs[p].key] = p
        /\ procs[p].sleeping
            => /\ callers[c].pc = "awaiting"
               /\ callers'[c].pc = IF procs'[p].sleeping THEN "awaiting" ELSE "resolved"
        /\ (procs[p].sleeping /\ ~procs'[p].sleeping)
            => /\ callers'[c].result = p
               /\ procs[p].targetResource = callers[c].targetResource
               /\ procs[p].port = callers[c].port
               /\ procs[p].localPort = callers[c].localPort]_vars

C5_Witness ==
    \E c \in DOMAIN callers :
        /\ callers[c].pc = "resolved"
        /\ callers[c].proc # 0
        /\ callers[c].result = callers[c].proc
        /\ registeredPortForwards[callers[c].key] = callers[c].proc
        /\ Active(procs[callers[c].proc])

\* --- C6
\* C6: a fatal-error line on stderr of a process that is not killed kills it,
\* and no call that enters the critical section is handed the descriptor of a
\* killed process: it goes on to spawn.
C6_FatalLineKills ==
    [][/\ \A p \in DOMAIN procs :
            (\E line \in Texts : IsFatalLine(line) /\ StderrData(p, line))
            => procs'[p].killed
       /\ \A c \in DOMAIN callers' :
            Enters(c) =>
                IF callers'[c].pc = "resolved"
                THEN /\ callers'[c].result = Found(c)
                     /\ ~procs'[callers'[c].result].killed
                ELSE /\ callers'[c].pc = "getPort"
                     /\ Found(c) # 0 => procs'[Found(c)].killed]_vars

C6_Witness ==
    \E p \in DOMAIN procs, q \in DOMAIN procs :
        /\ p < q
        /\ procs[p].key = procs[q].key
        /\ procs[p].resolved /\ procs[p].killed /\ ~procs[p].closed
        /\ procs[p].written = <<ReadyText, FatalText>>
        /\ callers[procs[q].owner].registered = p

\* --- C7
\* C7: the cleanup function kills the process of every registry entry that is
\* not killed yet and leaves the registry and all other processes as they
\* are; run again right away it finds nothing to kill and changes nothing.
C7_CleanupKillsAllOnce ==
    [][Cleanup =>
        /\ \A k \in Keys :
              registeredPortForwards[k] # 0 => procs'[registeredPortForwards[k]].killed
        /\ \A p \in DOMAIN procs :
              (\A k \in Keys : registeredPortForwards[k] # p) => procs'[p] = procs[p]
        /\ \A p \in DOMAIN procs : procs'[p] = [procs[p] EXCEPT !.killed = procs'[p].killed]
        /\ registeredPortForwards' = registeredPortForwards
        /\ {p \in CleanupTargets(registeredPortForwards', procs') : ~procs'[p].killed} = {}
        /\ KillAll(procs', CleanupTargets(registeredPortForwards', procs')) = procs']_vars

C7_Witness ==
    /\ \A k \in Keys :
          /\ registeredPortForwards[k] # 0
          /\ procs[registeredPortForwards[k]].killed
          /\ ~procs[registeredPortForwards[k]].closed
    /\ ~uncaught
    /\ \A p \in DOMAIN procs : procs[p].written = <<ReadyText>>

\* --- C8
\* C8 as stated: after killPortForward the registry has no entry for the key.
C8_ReleaseRemovesEntry ==
    [][\A t \in Targets :
        KillPortForward(t) => registeredPortForwards'[getPortForwardKey(t[1], t[2])] = 0]_vars

\* C8 amended: killPortForward kills the process of the key's registry entry
\* and touches nothing else; the entry stays in the registry, where no call
\* will reuse it, until the close event of a process of that key removes it.
C8_ReleaseKillsKeepsEntry ==
    [][/\ \A t \in Targets :
            LET key == getPortForwardKey(t[1], t[2]) IN
            KillPortForward(t) =>
                /\ registeredPortForwards' = registeredPortForwards
                /\ registeredPortForwards[key] # 0
                      => procs'[registeredPortForwards[key]].killed
                /\ ~Reusable(registeredPortForwards', procs', key)
                /\ \A p \in DOMAIN procs :
                      p # registeredPortForwards[key] => procs'[p] = procs[p]
       /\ \A k \in Keys :
            (registeredPortForwards[k] # 0 /\ registeredPortForwards'[k] = 0)
            => \E p \in DOMAIN procs :
                  procs[p].key = k /\ ~procs[p].closed /\ procs'[p].closed]_vars

C8_Witness ==
    \E k \in Keys :
        /\ registeredPortForwards[k] # 0
        /\ procs[registeredPortForwards[k]].killed
        /\ ~procs[registeredPortForwards[k]].closed
        /\ procs[registeredPortForwards[k]].written = <<ReadyText>>
        /\ ~uncaught

\* --- C9
\* C9: when the process of a call closes before its readiness line, the call
\* is rejected and stays rejected, no process is spawned in its place (the
\* call has spawned one process in all), and the registry has no entry for the
\* key right after.
C9_FailedCreationNotRetried ==
    [][\A p \in DOMAIN procs :
        LET c == procs[p].owner IN
        /\ (~procs[p].closed /\ procs'[p].closed /\ ~procs[p].resolved)
            => /\ callers'[c].pc = "rejected"
               /\ registeredPortForwards'[procs[p].key] = 0
               /\ Len(procs') = Len(procs)
               /\ {q \in DOMAIN procs' : procs'[q].owner = c} = {p}
        /\ callers[c].pc = "rejected"
            => /\ callers'[c] = callers[c]
               /\ {q \in DOMAIN procs' : procs'[q].owner = c} = {p}]_vars

C9_Witness ==
    \E c \in DOMAIN callers :
        /\ callers[c].pc = "rejected"
        /\ callers[c].registered # 0
        /\ ~procs[callers[c].registered].closed
        /\ registeredPortForwards[callers[c].key] = 0

\* --- C10
\* C10: an "error" event of a process whose readiness line was not seen yet
\* kills the process and rejects the call that spawned it.
C10_ErrorRejectsCaller ==
    [][\A p \in DOMAIN procs :
        (ProcError(p) /\ ~procs[p].resolved)
        => /\ procs'[p].killed
           /\ callers'[procs[p].owner].pc = "rejected"]_vars

\* --- C11
\* C11: at most one creation is in flight across the whole registry.  No two
\* processes are Pending at once, whatever their keys, no two calls are between
\* their lookup and the end of their creation, and the call that owns a Pending
\* process is the one that holds the lock.
C11_OneCreationInFlight ==
    /\ Cardinality({p \in DOMAIN procs : Pending(procs[p])}) <= 1
    /\ Cardinality({c \in DOMAIN callers : callers[c].pc \in {"getPort", "awaiting"}}) <= 1
    /\ \A p \in DOMAIN procs : Pending(procs[p]) => lockHolder = procs[p].owner

\* A process is Pending while a call for another key waits for the lock.
C11_Witness ==
    \E p \in DOMAIN procs, c \in DOMAIN callers :
        /\ Pending(procs[p])
        /\ callers[c].pc = "queued"
        /\ callers[c].key # procs[p].key

\* --- C12
\* C12 as stated: a Pending process is the registry entry of its key and its
\* call has left the critical section.
C12_PendingIsRegistered ==
    \A p \in DOMAIN procs :
        Pending(procs[p]) =>
            /\ registeredPortForwards[procs[p].key] = p
            /\ lockHolder # procs[p].owner

\* C12, amended: a process enters the registry only once its readiness line was
\* seen on stdout, and the critical section is kept until then.  While a process is
\* Pending it is no registry entry, its call holds the lock and awaits it, and
\* every other unfinished call is still waiting for the lock.
C12_RegisteredAtReadiness ==
    \A p \in DOMAIN procs :
        /\ (\E k \in Keys : registeredPortForwards[k] = p) =>
              /\ procs[p].resolved
              /\ \E i \in DOMAIN procs[p].written : procs[p].written[i] = ReadyText
        /\ Pending(procs[p]) =>
              /\ \A k \in Keys : registeredPortForwards[k] # p
              /\ lockHolder = procs[p].owner
              /\ callers[procs[p].owner].pc = "awaiting"
              /\ \A c \in DOMAIN callers :
                    (c # procs[p].owner /\ ~Settled(callers[c])) => callers[c].pc = "queued"

\* A later call for the same key waits while the first one's process is Pending.
C12_Witness ==
    \E p \in DOMAIN procs, c \in DOMAIN callers :
        /\ Pending(procs[p])
        /\ c > procs[p].owner
        /\ callers[c].key = procs[p].key
        /\ callers[c].pc = "queued"
        /\ registeredPortForwards[procs[p].key] = 0

\* --- C13
\* C13: a call that enters the critical section and finds an entry whose process
\* is not killed resolves with exactly that entry and changes nothing: it spawns
\* no process, takes no local port, and the entry's fields are as they were;
\* when the call enters at once, the registry and the processes are unchanged.
C13_ReuseChangesNothing ==
    [][\A c \in 1..NumCalls + 1 :
          (Enters(c) /\ Found(c) # 0 /\ ~procs'[Found(c)].killed) =>
              /\ callers'[c].pc = "resolved"
              /\ callers'[c].result = Found(c)
              /\ callers'[c].proc = 0
              /\ callers'[c].localPort = 0
              /\ Len(procs') = Len(procs)
              /\ procs'[Found(c)].targetResource = procs[Found(c)].targetResource
              /\ procs'[Found(c)].port = procs[Found(c)].port
              /\ procs'[Found(c)].localPort = procs[Found(c)].localPort
              /\ procs'[Found(c)].killed = procs[Found(c)].killed
              /\ (Len(callers') > Len(callers)) =>
                    /\ registeredPortForwards' = registeredPortForwards
                    /\ procs' = procs]_vars

\* A call has resolved with another call's process, which is not killed.
C13_Witness ==
    \E c \in DOMAIN callers :
        /\ callers[c].pc = "resolved"
        /\ callers[c].proc = 0
        /\ callers[c].localPort = 0
        /\ callers[c].result # 0
        /\ procs[callers[c].result].owner # c
        /\ ~procs[callers[c].result].killed

\* --- C14
\* C14: when the process of an Active tunnel closes, the entry of its key is
\* removed and no call, finished or waiting, is touched by the close; a call
\* that then enters and finds no entry goes on to spawn a process.
C14_ActiveCloseRemovesEntry ==
    [][/\ \A p \in DOMAIN procs :
             (Active(procs[p]) /\ procs'[p].closed) =>
                 /\ registeredPortForwards'[procs[p].key] = 0
                 /\ callers' = callers
                 /\ lockHolder' = lockHolder
       /\ \A c \in 1..NumCalls + 1 :
             (Enters(c) /\ Found(c) = 0) => callers'[c].pc = "getPort"]_vars

\* An Active tunnel's process closed, and a later call for the key spawned anew.
C14_Witness ==
    \E p \in DOMAIN procs, q \in DOMAIN procs :
        /\ procs[p].resolved /\ procs[p].closed /\ ~procs[p].killed
        /\ callers[procs[p].owner].pc = "resolved"
        /\ q > p
        /\ procs[q].key = procs[p].key

\* --- C15
\* C15: when every spawned process sooner or later emits its readiness line,
\* closes or raises an error event, every getPortForward call that was made is
\* sooner or later resolved or rejected.
C15_EveryCallSettles ==
    \A c \in 1..NumCalls + 1 :
        (c \in DOMAIN callers) ~> (c \in DOMAIN callers /\ Settled(callers[c]))

\* --- C16
\* C16: every process that has seen its readiness line and is neither closed
\* nor killed is the registry entry of its key.
C16_ActiveIsRegistered ==
    \A p \in DOMAIN procs :
        Active(procs[p]) => registeredPortForwards[procs[p].key] = p

\* --- C17
\* C17: when the settle timer resolves a call with the process it created, the
\* process is the registry entry of its key and is neither killed nor closed.
C17_ResolvesWithLiveTunnel ==
    [][\A p \in DOMAIN procs :
          (procs[p].sleeping /\ ~procs'[p].sleeping
             /\ callers'[procs[p].owner].pc = "resolved"
             /\ callers'[procs[p].owner].result = p) =>
              /\ registeredPortForwards'[procs[p].key] = p
              /\ ~procs'[p].killed
              /\ ~procs'[p].closed]_vars

\* --- C18
\* C18 as stated: after the cleanup function has run no spawned process is
\* left both un-killed and un-closed, and after killPortForward for a key none
\* of that key is.
C18_ShutdownLeavesNoProcess ==
    [][/\ Cleanup => \A p \in DOMAIN procs : procs'[p].killed \/ procs'[p].closed
       /\ \A t \in Targets :
             KillPortForward(t) =>
                 \A p \in DOMAIN procs :
                     procs[p].key = getPortForwardKey(t[1], t[2]) =>
                         procs'[p].killed \/ procs'[p].closed]_vars

\* C18, amended: the cleanup function and killPortForward reach only the
\* processes that are registry entries.  The processes left un-killed and
\* un-closed by the cleanup function are exactly those that were so before and
\* were no registry entry (a Pending one among them); killPortForward for a key
\* leaves exactly those that were not that key's entry.
C18_ShutdownKillsRegisteredOnly ==
    [][/\ Cleanup =>
             \A p \in DOMAIN procs :
                 ~Terminated(procs'[p]) <=>
                     /\ ~Terminated(procs[p])
                     /\ \A k \in Keys : registeredPortForwards[k] # p
       /\ \A t \in Targets :
             KillPortForward(t) =>
                 \A p \in DOMAIN procs :
                     ~Terminated(procs'[p]) <=>
                         /\ ~Terminated(procs[p])
                         /\ registeredPortForwards[getPortForwardKey(t[1], t[2])] # p]_vars

\* The registered process of one key was killed while the process of another
\* key, still Pending, runs on.
C18_Witness ==
    \E p \in DOMAIN procs, q \in DOMAIN procs :
        /\ registeredPortForwards[procs[p].key] = p
        /\ procs[p].killed /\ ~procs[p].closed
        /\ procs[q].key # procs[p].key
        /\ Pending(procs[q])
        /\ ~uncaught

\* --- C19
\* What a statement of the result says of a list of resources: which of them
\* count as Services, which as workloads, and when a Service suppresses a
\* container port of a workload.  Expected is the number of times entry e
\* should then be in the result: once for each port of each Service, and once
\* for each container port of each workload that no Service suppresses.
ForwardablePort(kind, name, portName, port) ==
    [name |-> portName, protocol |-> "TCP", targetName |-> kind \o "/" \o name,
     targetPort |-> port]

Count(seq, e) == Cardinality({i \in 1..Len(seq) : seq[i] = e})

Expected(rs, e, Service(_), Workload(_), Suppresses(_, _, _)) ==
    Cardinality(UNION {{<<i, j>> : j \in {n \in 1..Len(rs[i].ports) :
                            ForwardablePort("Service", rs[i].name, rs[i].ports[n].name,
                                            rs[i].ports[n].port) = e}}
                       : i \in {m \in 1..Len(rs) : Service(rs[m])}})
    + Cardinality(UNION {{<<i, j>> : j \in {n \in 1..Len(ContainerPorts(rs[i].containers)) :
                            LET cp == ContainerPorts(rs[i].containers)[n] IN
                            /\ ForwardablePort(rs[i].kind, rs[i].name, cp.name,
                                               cp.containerPort) = e
                            /\ ~\E s \in 1..Len(rs) :
                                   Service(rs[s]) /\ Suppresses(rs[s], rs[i], cp)}}
                       : i \in {m \in 1..Len(rs) : Workload(rs[m])}})

\* The entries to count: those returned and those any resource could give.
Entries(rs, out) ==
    {out[i] : i \in 1..Len(out)}
    \cup UNION {{ForwardablePort("Service", rs[i].name, rs[i].ports[j].name,
                                 rs[i].ports[j].port) : j \in 1..Len(rs[i].ports)}
                  : i \in 1..Len(rs)}
    \cup UNION {{ForwardablePort(rs[i].kind, rs[i].name,
                                 ContainerPorts(rs[i].containers)[j].name,
                                 ContainerPorts(rs[i].containers)[j].containerPort)
                     : j \in 1..Len(ContainerPorts(rs[i].containers))}
                  : i \in 1..Len(rs)}

StatedService(r) == r.kind = "Service"
StatedWorkload(r) == r.kind \in {"Deployment", "DaemonSet"}
StatedSuppresses(service, workload, cp) ==
    /\ service.selector \subseteq workload.labels
    /\ \E j \in 1..Len(service.ports) : service.ports[j].targetPort = cp.containerPort

AmendedService(r) == r.apiVersion = BuiltInApi /\ r.kind = "Service"
AmendedWorkload(r) ==
    \/ r.apiVersion = BuiltInApi /\ r.kind = "Deployment"
    \/ r.kind = "DaemonSet"
AmendedSuppresses(service, workload, cp) ==
    /\ service.selector # {}
    /\ service.selector \subseteq workload.labels
    /\ \E j \in 1..Len(service.ports) :
          /\ service.ports[j].targetPort # 0
          /\ service.ports[j].targetPort = cp.containerPort

\* C19 as stated: the result holds exactly one Service/<name> entry for each
\* declared port of each Service and one <Kind>/<name> entry for each container
\* port of each Deployment or DaemonSet for which no Service has a selector
\* that is a subset of the pod labels and a port whose target port is that
\* container port.
C19_ExactlyDeclaredPorts ==
    resolver.called =>
        \A e \in Entries(resolver.resources, resolver.ports) :
            Count(resolver.ports, e) =
                Expected(resolver.resources, e, StatedService, StatedWorkload,
                         StatedSuppresses)

\* C19, amended: the Services are the built-in resources of kind Service, the
\* workloads the built-in Deployments and all DaemonSets, and a Service
\* suppresses a container port when its selector is not empty and a subset of
\* the pod labels and one of its ports has a target port that is set and
\* equals the container port.  The result holds exactly one Service/<name>
\* entry (with the port's own number) for each port of each Service, and one
\* <Kind>/<name> entry for each container port of each workload that no
\* Service suppresses; every entry's protocol is TCP.
C19_ExactlyBuiltInPorts ==
    resolver.called =>
        \A e \in Entries(resolver.resources, resolver.ports) :
            Count(resolver.ports, e) =
                Expected(resolver.resources, e, AmendedService, AmendedWorkload,
                         AmendedSuppresses)

\* The first example of the claim: Service web (selector app=web, port 8080 to
\* target port 8080) with Deployment web (labels with app=web, container port
\* 8080) gives the Service/web entry only.
C19_Witness ==
    /\ resolver.called
    /\ Len(resolver.resources) = 2
    /\ AmendedService(resolver.resources[1])
    /\ resolver.resources[1].selector = {<<"app", "web">>}
    /\ resolver.resources[1].ports = <<[name |-> "http", port |-> 8080, targetPort |-> 8080]>>
    /\ resolver.resources[2].apiVersion = BuiltInApi
    /\ resolver.resources[2].kind = "Deployment"
    /\ resolver.resources[2].name = "web"
    /\ ContainerPorts(resolver.resources[2].containers) =
          <<[name |-> "http", containerPort |-> 8080]>>
    /\ resolver.ports = <<ForwardablePort("Service", "web", "http", 8080)>>

\* --- C20
Removed(rs, i) == SubSeq(rs, 1, i - 1) \o SubSeq(rs, i + 1, Len(rs))

\* The entries of a result that are not Service entries.
NotOfService(e) == e.targetName \notin {"Service/" \o r.name : r \in SampleResources}

NoSelector(r) == r.kind = "Service" /\ r.selector = {}
NoPorts(r) ==
    \/ r.kind = "Service" /\ r.ports = <<>>
    \/ r.kind \in {"Deployment", "DaemonSet"} /\ ContainerPorts(r.containers) = <<>>

\* C20 as stated: a Service without a selector, and a Service or workload
\* without declared ports, contributes nothing; the result is the one the
\* list without that resource gives.
C20_EmptyContributesNothing ==
    resolver.called =>
        \A i \in 1..Len(resolver.resources) :
            (NoSelector(resolver.resources[i]) \/ NoPorts(resolver.resources[i])) =>
                resolver.ports = getForwardablePorts(Removed(resolver.resources, i))

\* C20, amended: a Service or workload without declared ports contributes
\* nothing.  A Service without a selector suppresses no container port (the
\* workload entries are those of the list without it), but when it is
\* built-in each of its declared ports still gives a Service entry.
C20_PortlessContributesNothing ==
    resolver.called =>
        \A i \in 1..Len(resolver.resources) :
            LET r == resolver.resources[i]
                without == getForwardablePorts(Removed(resolver.resources, i))
            IN  /\ NoPorts(r) => resolver.ports = without
                /\ NoSelector(r) =>
                      /\ SelectSeq(resolver.ports, NotOfService) =
                             SelectSeq(without, NotOfService)
                      /\ Len(resolver.ports) = Len(without) +
                             (IF r.apiVersion = BuiltInApi THEN Len(r.ports) ELSE 0)

\* A built-in Service without a selector, with a port that targets 8080, and a
\* workload with container port 8080: both the Service's port and the
\* workload's port are in the result.
C20_Witness ==
    /\ resolver.called
    /\ \E i \in 1..Len(resolver.resources), j \in 1..Len(resolver.resources) :
          /\ NoSelector(resolver.resources[i])
          /\ resolver.resources[i].apiVersion = BuiltInApi
          /\ resolver.resources[i].ports # <<>>
          /\ resolver.resources[i].ports[1].targetPort = 8080
          /\ AmendedWorkload(resolver.resources[j])
          /\ ForwardablePort(resolver.resources[j].kind, resolver.resources[j].name,
                             "http", 8080) \in {resolver.ports[n] : n \in 1..Len(resolver.ports)}
          /\ ForwardablePort("Service", "web", "http", resolver.resources[i].ports[1].port)
                \in {resolver.ports[n] : n \in 1..Len(resolver.ports)}

====
